---- MODULE Spec2Model ----
(***************************************************************************)
(* Model of src/main.rs of nixpkgs-fod-reports: check_all_fods and main.   *)
(*                                                                         *)
(* The run has a main thread (pc) and two rayon parallel loops: the        *)
(* discovery loop (one task per attribute, lines 227-258) and the          *)
(* verification loop (one task per entry of the drvs map, lines 269-323).  *)
(* Every external nix command is a step whose outcome (success or failure) *)
(* is chosen nondeterministically.  The two HashMaps are sets of tuples    *)
(* with the insert semantics of std::collections::HashMap.                 *)
(***************************************************************************)
EXTENDS Integers, FiniteSets, Sequences, TLC

\* ---------------------------------------------------------------- bounds
NumAttrs == 2        \* attributes listed by nix-env
NumDrvs == 3         \* derivations of the store: 0 is shared, 1.. are top level
NumThreads == 2      \* rayon worker threads: tasks in progress at one time
MaxSeed == 2         \* entries of the cache file found at startup

Attrs == 1..NumAttrs
Drvs == 0..(NumDrvs - 1)
TopDrvs == Drvs \ {0}

\* process::exit(1) of main.
ExitFailure == 1

\* nix-store --query --requisites: the closure of a derivation, itself
\* included.  Every top-level derivation depends on derivation 0.
Requisites(d) == {0, d}

\* ------------------------------------------------- HashMap as set of tuples
Keys(m) == {p[1] : p \in m}

\* HashMap::extend / par_extend: every (k, v) is inserted, and an insert
\* of a key that is present replaces its value.
\* (ExtendDup: a variant that keeps the old record of a key next to the new.)
ExtendDup(m, kvs) == m \cup kvs

Extend(m, kvs) == {p \in m : p[1] \notin Keys(kvs)} \cup kvs

\* HashMap::insert on the map keyed by (attr, drv).
\* (InsertNegated: a variant that stores the negated value.)
InsertNegated(m, attr, drv, v) ==
    {e \in m : ~(e[1] = attr /\ e[2] = drv)} \cup {<<attr, drv, ~v>>}

Insert(m, attr, drv, v) ==
    {e \in m : ~(e[1] = attr /\ e[2] = drv)} \cup {<<attr, drv, v>>}

\* contains_key (ContainsNever: a variant that never finds the key).
ContainsNever(m, k) == FALSE

ContainsKey(m, k) == k \in Keys(m)

\* The first output of a derivation file, as the regex of is_fod reads it:
\* ("name", "path", "hashAlgo", "hash").  A field is "" or non-empty.
FodFile == <<"out", "/nix/store/out", "sha256", "hash">>
PlainFile == <<"out", "/nix/store/out", "", "">>

\* The .drv file of each derivation: derivation 0 is a source fetch, the
\* top-level derivations with an even number are fixed-output as well.
DrvFile(d) == IF d % 2 = 0 THEN FodFile ELSE PlainFile

\* The regex asks for four quoted strings of at least one character each.
RegexIsMatch(f) == \A i \in 1..4 : f[i] # ""

\* Maps the cache file may hold at startup: written by an earlier run in
\* which attribute 1 owned the derivations.
SeedMaps == {ks \X {1} : ks \in {k \in SUBSET Drvs : Cardinality(k) <= MaxSeed}}

\* What nix-instantiate may evaluate the attributes to: attribute 1 to
\* derivation 1, the next attribute to the same or the next derivation.
InstMaps ==
    {f \in [Attrs -> TopDrvs] :
        /\ f[1] = 1
        /\ \A a \in Attrs \ {1} : f[a] \in {f[a - 1], f[a - 1] + 1}}

VARIABLES
    pc,          \* position of the main thread
    exitCode,    \* -1 while running, then the process exit code
    cachePath,   \* NIXPKGS_FOD_REPORTS_DRV_CACHE is set and not empty
    cacheFile,   \* the cache file: "absent", "corrupt" or "json"
    cacheMap,    \* the map stored in the cache file when it is "json"
    seed,        \* the map loaded from the cache file at startup
    flushes,     \* writes of the cache file
    instMap,     \* attribute -> derivation nix-instantiate evaluates it to
    drvFiles,    \* derivations whose .drv file is on disk
    attrRoots,   \* roots/attrs/<attr> that exist
    drvRoots,    \* roots/drvs/<drv> that exist
    drvs,        \* Mutex<HashMap<PathBuf, String>>: set of <<drv, attr>>
    fods,        \* Mutex<HashMap<(String, PathBuf), bool>>: <<attr, drv, b>>
    fodsLock,    \* holders of the fods mutex: the entry of the task, if any
    dpc,         \* discovery task of each attribute: its position
    reqs,        \* discovery task: the local reqs vector
    instRes,     \* discovery task: "none", "ok" or "err" of instantiate
    queried,     \* derivation -> number of requisites queries run for it
    vpc,         \* verification task of each map entry: its position
    reinst,      \* verification task: "none", "ok", "err" of re-instantiate
    vclass,      \* verification task: "none" or the result of is_fod
    realiseCalls, \* entries for which nix-store --realise was run
    realiseRes,   \* verification task: "none", "ok" or "err" of realise
    checkCalls,   \* entries for which nix-store --realise --check was run
    checkRes,     \* verification task: "none" or the value check returned
    releaseCalls, \* entries whose task called release (line 305)
    deleteCalls,  \* entries whose task called delete (line 309)
    rootBy,       \* attr -> drv of the verification task that created
                  \* roots/attrs/<attr>, -1 when discovery did or none exists
    enumFailed,   \* attrs(nixpkgs) returned an error
    report,      \* "is not reproducible" lines printed: <<attr, drv>>
    injected,    \* rayon: the job of the discovery for_each waits in the injector
    deque,       \* rayon: worker -> its deque of jobs, oldest first
    stack,       \* rayon: worker -> the jobs it is inside of, innermost last
    drvsLock,    \* holder of the drvs mutex across par_extend: 0 or the attr
    bjob         \* par_extend of a task: state of the second job of its join

vars == <<pc, exitCode, cachePath, cacheFile, cacheMap, seed, flushes, instMap,
          drvFiles, attrRoots, drvRoots, drvs, fods, fodsLock, dpc, reqs,
          instRes, queried, vpc, reinst, vclass, realiseCalls, checkCalls,
          checkRes, releaseCalls, deleteCalls, realiseRes, rootBy, enumFailed,
          report, injected, deque, stack, drvsLock, bjob>>

\* The state of the worker pool: the steps of Spec take par_extend as one
\* step and leave it alone, the steps of SpecPool follow the workers.
poolVars == <<injected, deque, stack, drvsLock, bjob>>

envVars == <<cachePath, instMap, poolVars>>
discVars == <<dpc, reqs, instRes, queried>>
verVars == <<vpc, reinst, vclass, realiseCalls, checkCalls, checkRes,
             releaseCalls, deleteCalls, realiseRes, fods, fodsLock, drvRoots>>

Entries == Drvs \X Attrs

Init ==
    /\ pc = "start"
    /\ exitCode = -1
    /\ cachePath \in BOOLEAN
    /\ cacheFile \in {"absent", "corrupt", "json"}
    /\ cacheMap \in SeedMaps
    /\ (~cachePath) => cacheFile = "absent"
    /\ cacheFile # "json" => cacheMap = {}
    /\ seed = {}
    /\ flushes = 0
    /\ instMap \in InstMaps
    /\ drvFiles = {}
    /\ attrRoots = {}
    /\ drvRoots = {}
    /\ drvs = {}
    /\ fods = {}
    /\ fodsLock = {}
    /\ dpc = [a \in Attrs |-> "idle"]
    /\ reqs = [a \in Attrs |-> {}]
    /\ instRes = [a \in Attrs |-> "none"]
    /\ queried = [d \in Drvs |-> 0]
    /\ vpc = [e \in Entries |-> "idle"]
    /\ reinst = [e \in Entries |-> "none"]
    /\ vclass = [e \in Entries |-> "none"]
    /\ realiseCalls = {}
    /\ checkCalls = {}
    /\ checkRes = [e \in Entries |-> "none"]
    /\ releaseCalls = {}
    /\ deleteCalls = {}
    /\ realiseRes = [e \in Entries |-> "none"]
    /\ rootBy = [a \in Attrs |-> -1]
    /\ enumFailed = FALSE
    /\ report = {}
    /\ injected = FALSE
    /\ deque = <<>>
    /\ stack = <<>>
    /\ drvsLock = 0
    /\ bjob = <<>>

\* ------------------------------------------------------------ main thread

\* Lines 216-223: pre-seed drvs from the cache file.  A read or parse error
\* is returned by `?` and ends the run in main with exit code 1.
LoadCache ==
    /\ pc = "start"
    /\ IF cachePath /\ cacheFile # "absent"
       THEN IF cacheFile = "corrupt"
            THEN /\ pc' = "exit"
                 /\ exitCode' = ExitFailure
                 /\ UNCHANGED <<drvs, seed>>
            ELSE /\ drvs' = Extend(drvs, cacheMap)
                 /\ seed' = cacheMap
                 /\ pc' = "enumerate"
                 /\ UNCHANGED exitCode
       ELSE /\ pc' = "enumerate"
            /\ UNCHANGED <<drvs, seed, exitCode>>
    /\ UNCHANGED <<envVars, cacheFile, cacheMap, flushes, drvFiles, attrRoots, discVars,
                   verVars, rootBy, enumFailed, report>>

\* Lines 225-227, attrs(nixpkgs)?: an error of nix-env is returned to main.
\* (EnumerateFailedIgnored: a variant that goes on with what was listed.)
EnumerateFailedIgnored == pc' = "discovery" /\ UNCHANGED exitCode

EnumerateFailed == pc' = "exit" /\ exitCode' = ExitFailure

\* Line 227, attrs(nixpkgs)?: nix-env lists the attributes or fails.
Enumerate ==
    /\ pc = "enumerate"
    /\ \E ok \in BOOLEAN :
        IF ok
        THEN pc' = "discovery" /\ UNCHANGED <<exitCode, enumFailed>>
        ELSE EnumerateFailed /\ enumFailed' = TRUE
    /\ UNCHANGED <<envVars, cacheFile, cacheMap, seed, flushes, drvFiles, attrRoots,
                   drvs, discVars, verVars, rootBy, report>>

\* ------------------------------------------------- discovery (227-258)

DRunning == {a \in Attrs : dpc[a] \notin {"idle", "done", "panicked"}}

\* Lines 243-247: a failed evaluation is printed and reqs is empty.
\* (InstantiateFailedPanics: a variant that unwraps the result.)
InstantiateFailedPanics(a) ==
    /\ dpc' = [dpc EXCEPT ![a] = "panicked"]
    /\ instRes' = [instRes EXCEPT ![a] = "err"]

InstantiateFailed(a) ==
    /\ dpc' = [dpc EXCEPT ![a] = "release"]
    /\ instRes' = [instRes EXCEPT ![a] = "err"]

\* Line 230: nix-instantiate -A attr --add-root roots/attrs/attr.
Instantiate(a) ==
    /\ pc = "discovery"
    /\ dpc[a] = "idle"
    /\ Cardinality(DRunning) < NumThreads
    /\ \E ok \in BOOLEAN :
        IF ok
        THEN /\ dpc' = [dpc EXCEPT ![a] = "check"]
             /\ instRes' = [instRes EXCEPT ![a] = "ok"]
             /\ drvFiles' = drvFiles \cup Requisites(instMap[a])
             /\ attrRoots' = attrRoots \cup {a}
        ELSE /\ InstantiateFailed(a)
             /\ UNCHANGED <<drvFiles, attrRoots>>
    /\ UNCHANGED <<pc, exitCode, envVars, cacheFile, cacheMap, seed, flushes, drvs, reqs,
                   queried, verVars, rootBy, enumFailed, report>>

\* Lines 231-235 and 239-242: lock, contains_key, unlock.
CheckDuplicate(a) ==
    /\ pc = "discovery"
    /\ dpc[a] = "check"
    /\ IF ContainsKey(drvs, instMap[a])
       THEN dpc' = [dpc EXCEPT ![a] = "release"]
       ELSE dpc' = [dpc EXCEPT ![a] = "query"]
    /\ UNCHANGED <<pc, exitCode, envVars, cacheFile, cacheMap, seed, flushes, drvFiles,
                   attrRoots, drvs, reqs, instRes, queried, verVars, rootBy, enumFailed, report>>

\* Line 238: requisites(&drv).expect(..): a failed query panics the task.
QueryRequisites(a) ==
    /\ pc = "discovery"
    /\ dpc[a] = "query"
    /\ queried' = [queried EXCEPT ![instMap[a]] = @ + 1]
    /\ \E ok \in BOOLEAN :
        IF ok
        THEN /\ reqs' = [reqs EXCEPT ![a] = Requisites(instMap[a])]
             /\ dpc' = [dpc EXCEPT ![a] = "release"]
        ELSE /\ dpc' = [dpc EXCEPT ![a] = "panicked"]
             /\ UNCHANGED reqs
    /\ UNCHANGED <<pc, exitCode, envVars, cacheFile, cacheMap, seed, flushes, drvFiles,
                   attrRoots, drvs, instRes, verVars, rootBy, enumFailed, report>>

\* Lines 249-251: release(attr): remove roots/attrs/attr, errors ignored.
Release(a) ==
    /\ pc = "discovery"
    /\ dpc[a] = "release"
    /\ attrRoots' = attrRoots \ {a}
    /\ dpc' = [dpc EXCEPT ![a] = "merge"]
    /\ UNCHANGED <<pc, exitCode, envVars, cacheFile, cacheMap, seed, flushes, drvFiles,
                   drvs, reqs, instRes, queried, verVars, rootBy, enumFailed, report>>

\* Lines 253-257: lock, par_extend with (req, attr) for every req, unlock.
Merge(a) ==
    /\ pc = "discovery"
    /\ dpc[a] = "merge"
    /\ drvs' = Extend(drvs, reqs[a] \X {a})
    /\ reqs' = [reqs EXCEPT ![a] = {}]
    /\ dpc' = [dpc EXCEPT ![a] = "done"]
    /\ UNCHANGED <<pc, exitCode, envVars, cacheFile, cacheMap, seed, flushes, drvFiles,
                   attrRoots, instRes, queried, verVars, rootBy, enumFailed, report>>

\* for_each joins its tasks: each has returned or panicked.
\* (DiscoveryJoinedEarly: a variant that returns after the first task.)
DiscoveryJoinedEarly == \E a \in Attrs : dpc[a] \in {"done", "panicked"}

DiscoveryJoined == \A a \in Attrs : dpc[a] \in {"done", "panicked"}

\* Line 258: for_each returns when every task has run.  A panic of a task
\* is resumed on the main thread once the other tasks have finished, and
\* the process ends with the exit code of a panic.
EndDiscovery ==
    /\ pc = "discovery"
    /\ DiscoveryJoined
    /\ IF \E a \in Attrs : dpc[a] = "panicked"
       THEN pc' = "exit" /\ exitCode' = 101
       ELSE pc' = "flush" /\ UNCHANGED exitCode
    /\ UNCHANGED <<envVars, cacheFile, cacheMap, seed, flushes, drvFiles, attrRoots,
                   drvs, discVars, verVars, rootBy, enumFailed, report>>

\* Line 260: !cache.is_empty().
\* (ShouldFlushIfExists: a variant that repeats the condition of line 216.)
ShouldFlushIfExists == cachePath /\ cacheFile # "absent"

ShouldFlush == cachePath

\* Lines 260-267: write the map to the cache file when a path is set.  A
\* failed write is returned by `?` and ends the run with exit code 1.
Flush ==
    /\ pc = "flush"
    /\ IF ShouldFlush
       THEN \E ok \in BOOLEAN :
            IF ok
            THEN /\ cacheFile' = "json"
                 /\ cacheMap' = drvs
                 /\ flushes' = flushes + 1
                 /\ pc' = "verification"
                 /\ UNCHANGED exitCode
            ELSE /\ pc' = "exit"
                 /\ exitCode' = ExitFailure
                 /\ UNCHANGED <<cacheFile, cacheMap, flushes>>
       ELSE /\ pc' = "verification"
            /\ UNCHANGED <<exitCode, cacheFile, cacheMap, flushes>>
    /\ UNCHANGED <<envVars, seed, drvFiles, attrRoots, drvs, discVars, verVars, rootBy,
                   enumFailed, report>>

\* ---------------------------------------------- verification (269-323)
\* One task per entry (drv, attr) of the map; e[1] is drv and e[2] is attr.

VRunning == {e \in Entries : vpc[e] \notin {"idle", "done"}}

\* What a verification step leaves alone outside its own task.
mainVars == <<pc, exitCode, envVars, cacheFile, cacheMap, seed, flushes, drvs,
              discVars, enumFailed, report>>

\* Line 273: drv.exists().
Exists(e) ==
    /\ pc = "verification"
    /\ e \in drvs
    /\ vpc[e] = "idle"
    /\ Cardinality(VRunning) < NumThreads
    /\ IF e[1] \in drvFiles
       THEN vpc' = [vpc EXCEPT ![e] = "is_fod"]
       ELSE vpc' = [vpc EXCEPT ![e] = "instantiate"]
    /\ UNCHANGED <<mainVars, realiseRes, drvFiles, attrRoots, rootBy, reinst, vclass,
                   realiseCalls, checkCalls, checkRes, releaseCalls,
                   deleteCalls, fods, fodsLock, drvRoots>>

\* Lines 274-280: re-instantiate from the owning attribute; an error is
\* printed and the task goes on.
Reinstantiate(e) ==
    /\ pc = "verification"
    /\ vpc[e] = "instantiate"
    /\ \E ok \in BOOLEAN :
        IF ok
        THEN /\ drvFiles' = drvFiles \cup Requisites(instMap[e[2]])
             /\ attrRoots' = attrRoots \cup {e[2]}
             /\ rootBy' = [rootBy EXCEPT ![e[2]] = e[1]]
             /\ reinst' = [reinst EXCEPT ![e] = "ok"]
        ELSE /\ reinst' = [reinst EXCEPT ![e] = "err"]
             /\ UNCHANGED <<drvFiles, attrRoots, rootBy>>
    /\ vpc' = [vpc EXCEPT ![e] = "is_fod"]
    /\ UNCHANGED <<mainVars, realiseRes, vclass, realiseCalls, checkCalls, checkRes,
                   releaseCalls, deleteCalls, realiseRes, fods, fodsLock, drvRoots>>

\* Lines 75-79: read the file, then match the regex.
is_fod(d) ==
    IF d \notin drvFiles THEN "Err"
    ELSE IF RegexIsMatch(DrvFile(d)) THEN "true" ELSE "false"

\* Lines 283-296: where the task goes on the result of is_fod.
\* (AfterIsFodFailOpen: a variant that goes on when is_fod fails.)
AfterIsFodFailOpen(r) == IF r = "false" THEN "done" ELSE "realise"

AfterIsFod(r) == IF r = "true" THEN "realise" ELSE "done"

\* Lines 283-296: a derivation that is not fixed-output, or that cannot be
\* read, ends the task.
Classify(e) ==
    /\ pc = "verification"
    /\ vpc[e] = "is_fod"
    /\ vclass' = [vclass EXCEPT ![e] = is_fod(e[1])]
    /\ vpc' = [vpc EXCEPT ![e] = AfterIsFod(is_fod(e[1]))]
    /\ UNCHANGED <<mainVars, realiseRes, drvFiles, attrRoots, rootBy, reinst, realiseCalls,
                   checkCalls, checkRes, releaseCalls, deleteCalls, fods,
                   fodsLock, drvRoots>>

\* Lines 159-161 and 194-196: the root of a derivation is named after the
\* file name of its path.
\* (DrvRootShared: a variant that names every root alike.)
DrvRootShared(d) == 0

DrvRoot(d) == d

\* Line 300: nix-store --realise drv --add-root roots/drvs/<drv>.
Realise(e) ==
    /\ pc = "verification"
    /\ vpc[e] = "realise"
    /\ realiseCalls' = realiseCalls \cup {e}
    /\ \E ok \in BOOLEAN :
        IF ok
        THEN /\ drvRoots' = drvRoots \cup {DrvRoot(e[1])}
             /\ realiseRes' = [realiseRes EXCEPT ![e] = "ok"]
             /\ vpc' = [vpc EXCEPT ![e] = "lock"]
        ELSE /\ realiseRes' = [realiseRes EXCEPT ![e] = "err"]
             /\ vpc' = [vpc EXCEPT ![e] = "done"]
             /\ UNCHANGED drvRoots
    /\ UNCHANGED <<mainVars, drvFiles, attrRoots, rootBy, reinst, vclass,
                   checkCalls, checkRes, releaseCalls, deleteCalls, fods,
                   fodsLock>>

\* Lines 301-302: fods.lock(): the receiver of insert, the guard, is
\* evaluated before the arguments of insert.
LockFods(e) ==
    /\ pc = "verification"
    /\ vpc[e] = "lock"
    /\ fodsLock = {}
    /\ fodsLock' = {e}
    /\ vpc' = [vpc EXCEPT ![e] = "check"]
    /\ UNCHANGED <<mainVars, realiseRes, drvFiles, attrRoots, rootBy, reinst, vclass,
                   realiseCalls, checkCalls, checkRes, releaseCalls,
                   deleteCalls, fods, drvRoots>>

\* Lines 179-191 and 303: the argument check(drv) runs nix-store --realise
\* --check and is true when the command succeeds.
Check(e) ==
    /\ pc = "verification"
    /\ vpc[e] = "check"
    /\ checkCalls' = checkCalls \cup {e}
    /\ \E reproduced \in BOOLEAN :
        checkRes' = [checkRes EXCEPT ![e] = IF reproduced THEN "true" ELSE "false"]
    /\ vpc' = [vpc EXCEPT ![e] = "insert"]
    /\ UNCHANGED <<mainVars, realiseRes, drvFiles, attrRoots, rootBy, reinst, vclass,
                   realiseCalls, releaseCalls, deleteCalls, fods, fodsLock,
                   drvRoots>>

\* Lines 303-305: after the insert the task goes on to the cleanup.
\* (AfterInsertOnlyReproduced: a variant that cleans up on success only.)
AfterInsertOnlyReproduced(reproduced) == IF reproduced THEN "release" ELSE "done"

AfterInsert(reproduced) == "release"

\* Lines 301-303: insert((attr, drv), result); the guard is dropped at the
\* end of the statement.
InsertResult(e) ==
    /\ pc = "verification"
    /\ vpc[e] = "insert"
    /\ fods' = Insert(fods, e[2], e[1], checkRes[e] = "true")
    /\ fodsLock' = fodsLock \ {e}
    /\ vpc' = [vpc EXCEPT ![e] = AfterInsert(checkRes[e] = "true")]
    /\ UNCHANGED <<mainVars, realiseRes, drvFiles, attrRoots, rootBy, reinst, vclass,
                   realiseCalls, checkCalls, checkRes, releaseCalls,
                   deleteCalls, drvRoots>>

\* Lines 129-133 and 305-307: release(attr) removes roots/attrs/<attr>; an
\* error (no such file) is printed and ignored.
VRelease(e) ==
    /\ pc = "verification"
    /\ vpc[e] = "release"
    /\ releaseCalls' = releaseCalls \cup {e}
    /\ attrRoots' = attrRoots \ {e[2]}
    /\ rootBy' = [rootBy EXCEPT ![e[2]] = -1]
    /\ vpc' = [vpc EXCEPT ![e] = "delete"]
    /\ UNCHANGED <<mainVars, realiseRes, drvFiles, reinst, vclass, realiseCalls, checkCalls,
                   checkRes, deleteCalls, fods, fodsLock, drvRoots>>

\* Lines 193-206 and 309-315: nix-store --delete roots/drvs/<drv>, errors
\* printed and ignored.
Delete(e) ==
    /\ pc = "verification"
    /\ vpc[e] = "delete"
    /\ deleteCalls' = deleteCalls \cup {e}
    /\ \E ok \in BOOLEAN :
        IF ok
        THEN drvRoots' = drvRoots \ {DrvRoot(e[1])}
        ELSE UNCHANGED drvRoots
    /\ vpc' = [vpc EXCEPT ![e] = "done"]
    /\ UNCHANGED <<mainVars, realiseRes, drvFiles, attrRoots, rootBy, reinst, vclass,
                   realiseCalls, checkCalls, checkRes, releaseCalls, fods,
                   fodsLock>>

\* Lines 323-325: for_each returns when every entry has had its task.
EndVerification ==
    /\ pc = "verification"
    /\ \A e \in drvs : vpc[e] = "done"
    /\ pc' = "report"
    /\ UNCHANGED <<exitCode, envVars, cacheFile, cacheMap, seed, flushes,
                   drvFiles, attrRoots, rootBy, drvs, discVars, verVars,
                   enumFailed, report>>

\* Lines 333-337: the lines main prints for a map of results.
\* (ReportLinesAll: a variant without the test of line 334.)
ReportLinesAll(m) == {<<f[1], f[2]>> : f \in m}

ReportLines(m) == {<<f[1], f[2]>> : f \in {g \in m : ~g[3]}}

\* Lines 331-338: one line per entry of fods that was not reproduced, then
\* main returns.
Report ==
    /\ pc = "report"
    /\ report' = ReportLines(fods)
    /\ pc' = "exit"
    /\ exitCode' = 0
    /\ UNCHANGED <<envVars, cacheFile, cacheMap, seed, flushes, drvFiles,
                   attrRoots, rootBy, drvs, discVars, verVars, enumFailed>>

Next ==
    \/ LoadCache
    \/ Enumerate
    \/ \E a \in Attrs : Instantiate(a)
    \/ \E a \in Attrs : CheckDuplicate(a)
    \/ \E a \in Attrs : QueryRequisites(a)
    \/ \E a \in Attrs : Release(a)
    \/ \E a \in Attrs : Merge(a)
    \/ EndDiscovery
    \/ Flush
    \/ \E e \in Entries : Exists(e)
    \/ \E e \in Entries : Reinstantiate(e)
    \/ \E e \in Entries : Classify(e)
    \/ \E e \in Entries : Realise(e)
    \/ \E e \in Entries : LockFods(e)
    \/ \E e \in Entries : Check(e)
    \/ \E e \in Entries : InsertResult(e)
    \/ \E e \in Entries : VRelease(e)
    \/ \E e \in Entries : Delete(e)
    \/ EndVerification
    \/ Report

Spec == Init /\ [][Next]_vars

\* ------------------------------------------------------------ worker pool
\*
\* The discovery phase on the worker pool (lines 227-258).
\* par_iter().for_each splits the attributes into jobs that the workers of
\* rayon's pool take from their own deque, newest first, or steal from
\* another worker, oldest first.  par_extend (lines 253-257) is itself a
\* parallel iterator: called with the drvs mutex held, it joins two jobs,
\* pushes the second on the deque of its worker and, when that job was
\* stolen, has the worker look for other jobs until the thief is done.

PoolNumAttrs == 3     \* attributes of the run on the pool
PoolNumThreads == 3   \* workers of the pool

PoolAttrs == 1..PoolNumAttrs
PoolThreads == 1..PoolNumThreads

\* Jobs and frames: <<"range", lo, hi>> is the for_each over the attributes
\* lo..hi, <<"task", a, a>> the closure of attribute a, <<"b", a, a>> the
\* second job of the join inside the par_extend of attribute a.
TaskFrame(a) == <<"task", a, a>>

BJob(a) == <<"b", a, a>>

\* The jobs a worker pushes when it runs the for_each over lo..hi: it
\* splits the range in two, pushes the right half and goes on with the
\* left one until one attribute is left.
RECURSIVE PushSeq(_, _)
PushSeq(lo, hi) ==
    IF lo = hi
    THEN <<>>
    ELSE LET mid == (hi - lo + 1) \div 2
         IN  <<<<"range", lo + mid, hi>>>> \o PushSeq(lo, lo + mid - 1)

Top(t) == stack[t][Len(stack[t])]

Pop(q) == SubSeq(q, 1, Len(q) - 1)

\* The worker is running the closure of attribute a, innermost.
Runs(t, a) == stack[t] # <<>> /\ Top(t) = TaskFrame(a)

\* A worker looks for a job when it has nothing to run, or when the task it
\* runs waits for the stolen half of its par_extend.
Looking(t) ==
    \/ stack[t] = <<>>
    \/ \E a \in PoolAttrs : Runs(t, a) /\ dpc[a] = "wait_b" /\ bjob[a] = "stolen"

\* What the pool leaves alone: the cache, the store of the verification
\* phase and the report.
poolFixed == <<cachePath, cacheFile, cacheMap, seed, flushes, instMap, verVars,
               rootBy, enumFailed, report>>

\* The state at line 227, no cache given: every derivation has the shared
\* requisite 0 and one of its own.
InitPool ==
    /\ pc = "discovery"
    /\ exitCode = -1
    /\ cachePath = FALSE
    /\ cacheFile = "absent"
    /\ cacheMap = {}
    /\ seed = {}
    /\ flushes = 0
    /\ instMap = [a \in PoolAttrs |-> ((a - 1) % (NumDrvs - 1)) + 1]
    /\ drvFiles = {}
    /\ attrRoots = {}
    /\ drvRoots = {}
    /\ drvs = {}
    /\ fods = {}
    /\ fodsLock = {}
    /\ dpc = [a \in PoolAttrs |-> "idle"]
    /\ reqs = [a \in PoolAttrs |-> {}]
    /\ instRes = [a \in PoolAttrs |-> "none"]
    /\ queried = [d \in Drvs |-> 0]
    /\ vpc = [e \in Entries |-> "idle"]
    /\ reinst = [e \in Entries |-> "none"]
    /\ vclass = [e \in Entries |-> "none"]
    /\ realiseCalls = {}
    /\ checkCalls = {}
    /\ checkRes = [e \in Entries |-> "none"]
    /\ releaseCalls = {}
    /\ deleteCalls = {}
    /\ realiseRes = [e \in Entries |-> "none"]
    /\ rootBy = [a \in Attrs |-> -1]
    /\ enumFailed = FALSE
    /\ report = {}
    /\ injected = TRUE
    /\ deque = [t \in PoolThreads |-> <<>>]
    /\ stack = [t \in PoolThreads |-> <<>>]
    /\ drvsLock = 0
    /\ bjob = [a \in PoolAttrs |-> "none"]

\* Worker t starts job j, taken from a deque or from the injector; dq is
\* the deques without the job.  A for_each over a range is split down to
\* its first attribute, whose closure begins (line 228); the second job of
\* a par_extend is now with a thief.
RunJob(t, j, dq) ==
    /\ stack' = [stack EXCEPT ![t] = Append(@, IF j[1] = "range" THEN TaskFrame(j[2]) ELSE j)]
    /\ IF j[1] = "range"
       THEN /\ deque' = [dq EXCEPT ![t] = @ \o PushSeq(j[2], j[3])]
            /\ dpc' = [dpc EXCEPT ![j[2]] = "instantiate"]
            /\ UNCHANGED bjob
       ELSE /\ deque' = dq
            /\ bjob' = [bjob EXCEPT ![j[2]] = "stolen"]
            /\ UNCHANGED dpc

\* Line 227: for_each, called on the main thread, injects its job into the
\* pool; a worker with nothing of its own takes it.
TakeInjected(t) ==
    /\ pc = "discovery"
    /\ injected
    /\ Looking(t)
    /\ deque[t] = <<>>
    /\ injected' = FALSE
    /\ RunJob(t, <<"range", 1, PoolNumAttrs>>, deque)
    /\ UNCHANGED <<pc, exitCode, drvFiles, attrRoots, drvs, reqs, instRes, queried,
                   drvsLock, poolFixed>>

\* A worker looking for a job takes the newest job of its own deque.
PopLocal(t) ==
    /\ pc = "discovery"
    /\ Looking(t)
    /\ deque[t] # <<>>
    /\ deque[t][Len(deque[t])][1] = "range"
    /\ RunJob(t, deque[t][Len(deque[t])], [deque EXCEPT ![t] = Pop(@)])
    /\ UNCHANGED <<pc, exitCode, drvFiles, attrRoots, drvs, reqs, instRes, queried,
                   injected, drvsLock, poolFixed>>

\* A worker whose own deque is empty steals the oldest job of another.
Steal(t, v) ==
    /\ pc = "discovery"
    /\ t # v
    /\ Looking(t)
    /\ deque[t] = <<>>
    /\ deque[v] # <<>>
    /\ RunJob(t, Head(deque[v]), [deque EXCEPT ![v] = Tail(@)])
    /\ UNCHANGED <<pc, exitCode, drvFiles, attrRoots, drvs, reqs, instRes, queried,
                   injected, drvsLock, poolFixed>>

\* The thief has run the stolen half of a par_extend and sets its latch.
FinishB(t) ==
    /\ pc = "discovery"
    /\ stack[t] # <<>>
    /\ Top(t)[1] = "b"
    /\ bjob' = [bjob EXCEPT ![Top(t)[2]] = "done"]
    /\ stack' = [stack EXCEPT ![t] = Pop(@)]
    /\ UNCHANGED <<pc, exitCode, drvFiles, attrRoots, drvs, dpc, reqs, instRes, queried,
                   injected, deque, drvsLock, poolFixed>>

\* Line 230: instantiate, on the worker that runs the closure.
PoolInstantiate(t, a) ==
    /\ pc = "discovery"
    /\ Runs(t, a)
    /\ dpc[a] = "instantiate"
    /\ \E ok \in BOOLEAN :
        IF ok
        THEN /\ dpc' = [dpc EXCEPT ![a] = "check"]
             /\ instRes' = [instRes EXCEPT ![a] = "ok"]
             /\ drvFiles' = drvFiles \cup Requisites(instMap[a])
             /\ attrRoots' = attrRoots \cup {a}
        ELSE /\ InstantiateFailed(a)
             /\ UNCHANGED <<drvFiles, attrRoots>>
    /\ UNCHANGED <<pc, exitCode, drvs, reqs, queried, poolVars, poolFixed>>

\* Lines 231-235: drvs.lock() returns once no one holds the mutex; the
\* guard is dropped at the end of the condition.
PoolCheckDuplicate(t, a) ==
    /\ pc = "discovery"
    /\ Runs(t, a)
    /\ dpc[a] = "check"
    /\ drvsLock = 0
    /\ IF ContainsKey(drvs, instMap[a])
       THEN dpc' = [dpc EXCEPT ![a] = "release"]
       ELSE dpc' = [dpc EXCEPT ![a] = "query"]
    /\ UNCHANGED <<pc, exitCode, drvFiles, attrRoots, drvs, reqs, instRes, queried,
                   poolVars, poolFixed>>

\* Line 238: requisites(&drv).expect(..): a panic unwinds the closure.
PoolQueryRequisites(t, a) ==
    /\ pc = "discovery"
    /\ Runs(t, a)
    /\ dpc[a] = "query"
    /\ queried' = [queried EXCEPT ![instMap[a]] = @ + 1]
    /\ \E ok \in BOOLEAN :
        IF ok
        THEN /\ reqs' = [reqs EXCEPT ![a] = Requisites(instMap[a])]
             /\ dpc' = [dpc EXCEPT ![a] = "release"]
             /\ UNCHANGED stack
        ELSE /\ dpc' = [dpc EXCEPT ![a] = "panicked"]
             /\ stack' = [stack EXCEPT ![t] = Pop(@)]
             /\ UNCHANGED reqs
    /\ UNCHANGED <<pc, exitCode, drvFiles, attrRoots, drvs, instRes, injected, deque,
                   drvsLock, bjob, poolFixed>>

\* Lines 249-251: release(attr).
PoolRelease(t, a) ==
    /\ pc = "discovery"
    /\ Runs(t, a)
    /\ dpc[a] = "release"
    /\ attrRoots' = attrRoots \ {a}
    /\ dpc' = [dpc EXCEPT ![a] = "merge"]
    /\ UNCHANGED <<pc, exitCode, drvFiles, drvs, reqs, instRes, queried, poolVars,
                   poolFixed>>

\* Lines 253-257: drvs.lock() returns once no one holds the mutex; the
\* guard lives until par_extend has returned.  par_extend over two or more
\* requisites joins two halves: the second is pushed on the worker's deque.
PoolLockDrvs(t, a) ==
    /\ pc = "discovery"
    /\ Runs(t, a)
    /\ dpc[a] = "merge"
    /\ drvsLock = 0
    /\ drvsLock' = a
    /\ IF Cardinality(reqs[a]) >= 2
       THEN /\ deque' = [deque EXCEPT ![t] = Append(@, BJob(a))]
            /\ bjob' = [bjob EXCEPT ![a] = "pushed"]
            /\ dpc' = [dpc EXCEPT ![a] = "oper_a"]
       ELSE /\ dpc' = [dpc EXCEPT ![a] = "extend"]
            /\ UNCHANGED <<deque, bjob>>
    /\ UNCHANGED <<pc, exitCode, drvFiles, attrRoots, drvs, reqs, instRes, queried,
                   injected, stack, poolFixed>>

\* The worker has run the first half: it takes the second back from its
\* deque and runs it, or finds it stolen and waits for the thief.
PoolOperA(t, a) ==
    /\ pc = "discovery"
    /\ Runs(t, a)
    /\ dpc[a] = "oper_a"
    /\ IF bjob[a] = "pushed"
       THEN /\ deque' = [deque EXCEPT ![t] = Pop(@)]
            /\ bjob' = [bjob EXCEPT ![a] = "none"]
            /\ dpc' = [dpc EXCEPT ![a] = "extend"]
       ELSE /\ dpc' = [dpc EXCEPT ![a] = IF bjob[a] = "done" THEN "extend" ELSE "wait_b"]
            /\ UNCHANGED <<deque, bjob>>
    /\ UNCHANGED <<pc, exitCode, drvFiles, attrRoots, drvs, reqs, instRes, queried,
                   injected, stack, drvsLock, poolFixed>>

\* The latch of the stolen half is set: the join returns.
PoolJoined(t, a) ==
    /\ pc = "discovery"
    /\ Runs(t, a)
    /\ dpc[a] = "wait_b"
    /\ bjob[a] = "done"
    /\ dpc' = [dpc EXCEPT ![a] = "extend"]
    /\ UNCHANGED <<pc, exitCode, drvFiles, attrRoots, drvs, reqs, instRes, queried,
                   poolVars, poolFixed>>

\* The collected pairs are inserted, the guard is dropped and the closure
\* returns (line 258).
PoolExtend(t, a) ==
    /\ pc = "discovery"
    /\ Runs(t, a)
    /\ dpc[a] = "extend"
    /\ drvs' = Extend(drvs, reqs[a] \X {a})
    /\ reqs' = [reqs EXCEPT ![a] = {}]
    /\ dpc' = [dpc EXCEPT ![a] = "done"]
    /\ bjob' = [bjob EXCEPT ![a] = "none"]
    /\ drvsLock' = 0
    /\ stack' = [stack EXCEPT ![t] = Pop(@)]
    /\ UNCHANGED <<pc, exitCode, drvFiles, attrRoots, instRes, queried, injected, deque,
                   poolFixed>>

\* Line 258: for_each returns on the main thread when every closure has
\* returned or panicked.
PoolEndDiscovery ==
    /\ pc = "discovery"
    /\ \A a \in PoolAttrs : dpc[a] \in {"done", "panicked"}
    /\ IF \E a \in PoolAttrs : dpc[a] = "panicked"
       THEN pc' = "exit" /\ exitCode' = 101
       ELSE pc' = "flush" /\ UNCHANGED exitCode
    /\ UNCHANGED <<drvFiles, attrRoots, drvs, discVars, poolVars, poolFixed>>

NextPool ==
    \/ \E t \in PoolThreads : TakeInjected(t)
    \/ \E t \in PoolThreads : PopLocal(t)
    \/ \E t, v \in PoolThreads : Steal(t, v)
    \/ \E t \in PoolThreads : FinishB(t)
    \/ \E t \in PoolThreads, a \in PoolAttrs : PoolInstantiate(t, a)
    \/ \E t \in PoolThreads, a \in PoolAttrs : PoolCheckDuplicate(t, a)
    \/ \E t \in PoolThreads, a \in PoolAttrs : PoolQueryRequisites(t, a)
    \/ \E t \in PoolThreads, a \in PoolAttrs : PoolRelease(t, a)
    \/ \E t \in PoolThreads, a \in PoolAttrs : PoolLockDrvs(t, a)
    \/ \E t \in PoolThreads, a \in PoolAttrs : PoolOperA(t, a)
    \/ \E t \in PoolThreads, a \in PoolAttrs : PoolJoined(t, a)
    \/ \E t \in PoolThreads, a \in PoolAttrs : PoolExtend(t, a)
    \/ PoolEndDiscovery

SpecPool == InitPool /\ [][NextPool]_vars

\* ---------------------------------------------------------------- claims

VerificationBegun == \E e \in Entries : vpc[e] # "idle"

CompletedRun == pc = "exit" /\ exitCode = 0

\* C1: if several attributes instantiate to the same derivation, the
\* requisites query for that derivation is run at most once in the run: no
\* two tasks both pass the contains_key check for the same derivation.
C1_RequisitesQueriedOnce ==
    /\ \A d \in Drvs : queried[d] <= 1
    /\ \A a, b \in Attrs :
        (a # b /\ instMap[a] = instMap[b]) =>
            ~(dpc[a] = "query" /\ dpc[b] = "query")

\* C2: first writer wins: an entry (drv, attr) of the map, once present,
\* is present with the same attr after every later step.
C2_OwnerNeverChanges == [][\A p \in drvs : p \in drvs']_vars

\* C3: the map holds one record per derivation, each derivation is handed
\* to at most one verification task, and no two results share a derivation.
C3_OneRecordPerDerivation ==
    /\ \A p, q \in drvs : p[1] = q[1] => p = q
    /\ \A e, g \in Entries :
        (vpc[e] # "idle" /\ vpc[g] # "idle" /\ e[1] = g[1]) => e = g
    /\ \A f, g \in fods : f[2] = g[2] => f = g
    /\ \A f \in fods : <<f[2], f[1]>> \in drvs

\* C3 witness: two attributes with different derivations both merged the
\* shared derivation 0, and the run ended with a result for it.
C3_Witness ==
    /\ CompletedRun
    /\ seed = {}
    /\ instMap[1] # instMap[2]
    /\ queried[instMap[1]] = 1 /\ queried[instMap[2]] = 1
    /\ \E f \in fods : f[2] = 0

\* C4: an entry whose is_fod returned false or an error has no realise
\* call, no check call and no result, and its task has ended.
C4_NonFodNeverVerified ==
    \A e \in Entries :
        vclass[e] \in {"false", "Err"} =>
            /\ e \notin realiseCalls
            /\ e \notin checkCalls
            /\ \A f \in fods : f[2] # e[1]
            /\ vpc[e] = "done"

\* C4 witness: one entry was classified not fixed-output, another could
\* not be read, and a third derivation was verified.
C4_Witness ==
    /\ CompletedRun
    /\ \E e \in Entries : vclass[e] = "false"
    /\ \E e \in Entries : vclass[e] = "Err"
    /\ fods # {}

\* C5: a verification step happens only after every discovery task has
\* finished, and the map is not written once verification has begun.
C5_PhasesOrdered ==
    /\ [](VerificationBegun => \A a \in Attrs : dpc[a] = "done")
    /\ [][VerificationBegun => drvs' = drvs]_vars

\* C5 witness: verification is under way after both attributes merged.
C5_Witness ==
    /\ \E e \in Entries : vpc[e] = "check"
    /\ \A a \in Attrs : queried[instMap[a]] >= 1

\* C6: a failed requisites query is not fatal: the run still ends
\* normally, with verification done and the report printed.
C6_QueryFailureNonFatal ==
    (pc = "exit" /\ \E a \in Attrs : dpc[a] = "panicked") => exitCode = 0

\* C7: an attribute whose instantiation failed adds no entry to the map
\* and does not abort the run: the run is aborted only by a failed
\* requisites query, and a completed run has instantiated every attribute,
\* holds the derivation of every other attribute, and has run every task,
\* realising each derivation classified fixed-output.
C7_InstantiateFailureSkipped ==
    /\ \A a \in Attrs :
        instRes[a] = "err" =>
            /\ reqs[a] = {}
            /\ dpc[a] \in {"release", "merge", "done"}
            /\ \A p \in drvs : p[2] = a => p \in seed
    /\ exitCode = 101 => \E a \in Attrs : instRes[a] = "ok" /\ dpc[a] = "panicked"
    /\ (pc \in {"flush", "verification", "report"} \/ CompletedRun) =>
        /\ \A a \in Attrs : instRes[a] # "none"
        /\ \A a \in Attrs : instRes[a] = "ok" => instMap[a] \in Keys(drvs)
    /\ CompletedRun =>
        /\ \A e \in drvs : vpc[e] = "done"
        /\ \A e \in drvs : vclass[e] = "true" => e \in realiseCalls
        /\ \A f \in fods : ~f[3] => <<f[1], f[2]>> \in report

\* C7 witness: attribute 1 failed to instantiate, attribute 2 was
\* discovered and a derivation it owns was verified and reported.
C7_Witness ==
    /\ CompletedRun
    /\ instRes[1] = "err"
    /\ instRes[2] = "ok"
    /\ \E f \in fods : f[1] = 2 /\ ~f[3] /\ <<f[1], f[2]>> \in report

\* C8: no requisites query is run for a derivation that is a key of the
\* map loaded from the cache file.
C8_NoQueryForCached == \A d \in Keys(seed) : queried[d] = 0

\* C8 witness: an attribute instantiated to a cached derivation and its
\* task finished.
C8_Witness ==
    \E a \in Attrs :
        /\ instRes[a] = "ok"
        /\ instMap[a] \in Keys(seed)
        /\ dpc[a] = "done"

\* C9: every entry loaded from the cache file is in the file written at
\* the end of discovery, with the same attribute.
C9_CacheSuperset == flushes >= 1 => seed \subseteq cacheMap

\* C10: with a cache path set, the map is written to the file once, after
\* every discovery task has finished and before any verification step,
\* and the file holds the whole map throughout verification.
C10_FlushedOnceBeforeVerification ==
    /\ flushes <= 1
    /\ flushes = 1 => (cachePath /\ \A a \in Attrs : dpc[a] = "done")
    /\ (cachePath /\ (pc \in {"verification", "report"} \/ CompletedRun
                      \/ VerificationBegun)) =>
        /\ flushes = 1
        /\ cacheFile = "json"
        /\ cacheMap = drvs

\* C10 witness: a run with a cache path and no cache file is in its
\* verification phase with the discovered map written.
C10_Witness ==
    /\ cachePath
    /\ seed = {}
    /\ flushes = 1
    /\ cacheMap # {}
    /\ \E e \in Entries : vpc[e] = "check"

\* C11: a task whose realise succeeded calls release and then delete after
\* the verify step and before it ends, for both verdicts, and the recorded
\* result stays as it was whatever release and delete return.
C11_CleanupAfterVerify ==
    /\ \A e \in Entries :
        (vpc[e] = "done" /\ realiseRes[e] = "ok") =>
            (e \in releaseCalls /\ e \in deleteCalls)
    /\ releaseCalls \subseteq checkCalls
    /\ deleteCalls \subseteq releaseCalls
    /\ \A e \in releaseCalls : <<e[2], e[1], checkRes[e] = "true">> \in fods

\* C11 witness: a run ended with a result of each verdict, both tasks
\* called delete and the delete of the one not reproduced failed.
C11_Witness ==
    /\ CompletedRun
    /\ \E e, g \in deleteCalls :
        /\ checkRes[e] = "false" /\ DrvRoot(e[1]) \in drvRoots
        /\ checkRes[g] = "true"

\* C12: a result is recorded for an entry exactly when its realise
\* succeeded (once the insert is done), its verdict is what check returned,
\* and an entry whose realise failed has no check call and no result.
C12_ResultIffRealised ==
    /\ \A f \in fods :
        /\ realiseRes[<<f[2], f[1]>>] = "ok"
        /\ <<f[2], f[1]>> \in checkCalls
        /\ f[3] = (checkRes[<<f[2], f[1]>>] = "true")
    /\ \A e \in Entries :
        (realiseRes[e] = "ok" /\ vpc[e] \in {"release", "delete", "done"}) =>
            \E f \in fods : f[1] = e[2] /\ f[2] = e[1]
    /\ \A e \in Entries :
        realiseRes[e] = "err" =>
            (e \notin checkCalls /\ \A f \in fods : f[2] # e[1])
    /\ \A e \in checkCalls : realiseRes[e] = "ok"

\* C12 witness: one realise failed, and another entry has a result that
\* says not reproduced.
C12_Witness ==
    /\ CompletedRun
    /\ \E e \in Entries : realiseRes[e] = "err"
    /\ \E f \in fods : ~f[3]

\* C13: when the enumeration fails the run ends with exit code 1, no
\* attribute instantiated, nothing realised or checked, no report line; a
\* run ends with exit code 1 only on an enumeration or cache error, and a
\* run that has results, reproduced or not, ends with exit code 0.
C13_EnumerationFailureFatal ==
    /\ enumFailed =>
        /\ pc = "exit" /\ exitCode = ExitFailure
        /\ \A a \in Attrs : dpc[a] = "idle" /\ instRes[a] = "none"
        /\ realiseCalls = {} /\ checkCalls = {} /\ fods = {}
        /\ report = {}
    /\ (pc = "exit" /\ exitCode = ExitFailure /\ ~enumFailed) =>
        (cachePath /\ (cacheFile = "corrupt" \/ flushes = 0))
    /\ (pc = "exit" /\ exitCode # 0) => (~VerificationBegun /\ fods = {})
    /\ pc = "report" => exitCode = -1
    /\ (pc = "exit" /\ VerificationBegun) => exitCode = 0

\* C13 witness: the cache was loaded and the enumeration failed.
C13_Witness == enumFailed /\ drvs # {} /\ pc = "exit"

\* C14: the report holds a line for exactly the (attr, drv) whose result
\* says not reproduced, so it is determined by the set of results; nothing
\* is printed before the run completes.
C14_ReportIsFunctionOfResults ==
    /\ CompletedRun =>
        \A a \in Attrs, d \in Drvs :
            (<<a, d>> \in report) <=> (<<a, d, FALSE>> \in fods)
    /\ ~CompletedRun => report = {}

\* C14 witness: a completed run with a result of each verdict.
C14_Witness ==
    /\ CompletedRun
    /\ \E f, g \in fods : f[3] /\ ~g[3]
    /\ report # {}

\* C15: a task that has ended has released the attribute root it created.
C15_RootsReleased ==
    /\ \A e \in Entries :
        vpc[e] = "done" => ~(e[2] \in attrRoots /\ rootBy[e[2]] = e[1])
    /\ \A a \in Attrs :
        dpc[a] = "done" => ~(a \in attrRoots /\ rootBy[a] = -1)

\* C16: a verification task removes or re-creates an attribute root only
\* when it created that root itself.
C16_RootsNotShared ==
    [][\A e \in Entries :
        /\ (vpc[e] = "release" /\ vpc'[e] = "delete" /\ e[2] \in attrRoots)
              => rootBy[e[2]] = e[1]
        /\ (vpc[e] = "instantiate" /\ reinst'[e] = "ok" /\ e[2] \in attrRoots)
              => rootBy[e[2]] = e[1]]_vars

\* C17: from the success of realise until check has returned, the root of
\* the derivation exists.
C17_DrvRootHeldDuringVerify ==
    \A e \in Entries : vpc[e] \in {"lock", "check"} => DrvRoot(e[1]) \in drvRoots

\* C17 witness: one task is inside check while another task has deleted
\* the root of its own derivation.
C17_Witness ==
    \E e, g \in Entries :
        /\ e # g
        /\ vpc[e] = "check"
        /\ g \in deleteCalls
        /\ DrvRoot(g[1]) \notin drvRoots

\* C18: an entry whose re-instantiation failed has no realise call, no
\* check call and no result.
C18_ReinstantiateFailureSkips ==
    \A e \in Entries :
        reinst[e] = "err" =>
            /\ e \notin realiseCalls
            /\ e \notin checkCalls
            /\ \A f \in fods : f[2] # e[1]

\* C19: the fods mutex is not held while check runs.
C19_LockNotHeldDuringVerify ==
    \A e \in Entries : vpc[e] = "check" => e \notin fodsLock

\* C20  No worker waits for the drvs mutex while a closure it has suspended
\* holds it: a worker inside par_extend, the mutex held, never starts the
\* closure of another attribute, which would lock the same mutex at line
\* 231 or 253.
C20_NoSelfDeadlock ==
    \A t \in DOMAIN stack :
        \A i \in 1..Len(stack[t]) :
            (stack[t][i][1] = "task" /\ drvsLock = stack[t][i][2])
                => \A j \in (i + 1)..Len(stack[t]) : stack[t][j][1] # "task"

====
